---- MODULE Spec2Model ----
(***************************************************************************)
(* github-activity-report: the tolerant decoder (load_events) and the      *)
(* aggregation reducer (the two passes of main).                           *)
(*                                                                         *)
(* SpecLoad   : load_events over a bounded raw batch.                      *)
(* SpecReduce : the two passes of main over a bounded decoded sequence.    *)
(* SpecMain   : main from the credential check to the rendered report.     *)
(***************************************************************************)
EXTENDS Integers, Sequences, FiniteSets, TLC

VARIABLES
    pc,            \* position in load_events / main
    events_raw,    \* load_events: json.loads(INITIAL_EVENTS_PATH.read_text())
    cursor,        \* load_events: index of event_raw in the fallback loop
    events_list,   \* load_events: events_list of the fallback path
    rejected,      \* load_events: number of "Error, failed to deserialize" logs
    warned,        \* load_events: the "WARNING ... fallbacking" log was printed
    result,        \* load_events: the returned list
    events,        \* main: events (the decoded sequence)
    todo,          \* main: the rest of the sorted, filtered pass being iterated
    done,          \* main: events already iterated, in processing order
    repositories,  \* main: repositories (repo name -> Repository)
    GITHUB_TOKEN,  \* os.getenv("GAR_GITHUB_TOKEN", None)
    snapshot,      \* the file at INITIAL_EVENTS_PATH: None, or its raw batch
    work           \* the requests and file reads made so far, in order

vars == <<pc, events_raw, cursor, events_list, rejected, warned, result,
          events, todo, done, repositories, GITHUB_TOKEN, snapshot, work>>

loadVars == <<events_raw, cursor, events_list, rejected, warned, result>>
mainVars == <<events, todo, done, repositories>>
envVars == <<GITHUB_TOKEN, snapshot, work>>

\* Optional values (X | None): <<>> is None, <<x>> is x.
None == <<>>
Some(x) == <<x>>

----------------------------------------------------------------------------
(* Bounds                                                                  *)

MaxBatch == 3     \* longest raw batch given to load_events
MaxEvents == 3    \* longest decoded sequence given to the reducer

----------------------------------------------------------------------------
(* Event Schema Registry (github_models.py)                                *)

\* The members of the Event union; WatchEvent is listed twice in the source,
\* a Union keeps one.
EventUnion ==
    {"CommitCommentEvent", "CreateEvent", "DeleteEvent", "ForkEvent",
     "GollumEvent", "IssueCommentEvent", "IssuesEvent", "MemberEvent",
     "PublicEvent", "PullRequestEvent", "PullRequestReviewEvent",
     "PullRequestReviewCommentEvent", "PullRequestReviewThreadEvent",
     "PushEvent", "ReleaseEvent", "SponsorshipEvent", "WatchEvent"}

\* A raw record's type field when it is absent or not a string.
NoType == "<no type>"

\* A raw record's payload that has the shape of no payload schema.
Malformed == "<malformed>"

\* type: Literal["<variant>"] of a variant class: the values it accepts.
TypeLiteral_str(variant) == {t \in STRING : t # NoType}
TypeLiteral(variant) == {variant}

\* Payload schemas whose only required field is action: str (WatchEventPayload)
\* accept every payload shape that carries a string action.
HasAction ==
    {"CommitCommentEvent", "IssueCommentEvent", "IssuesEvent", "MemberEvent",
     "PullRequestEvent", "PullRequestReviewEvent",
     "PullRequestReviewCommentEvent", "PullRequestReviewThreadEvent",
     "ReleaseEvent", "SponsorshipEvent", "WatchEvent"}

\* <variant>Payload.model_validate: a raw payload is described by the variant
\* whose payload schema it was built for. Extra fields are ignored, so the
\* IssueCommentEvent shape (action, issue, comment) also satisfies
\* IssuesEventPayload (action, issue) and every shape with an action satisfies
\* WatchEventPayload (action).
PayloadValidate_lax(variant, payload) == payload \in EventUnion \cup {Malformed}
PayloadValidate(variant, payload) ==
    \/ payload = variant
    \/ variant = "IssuesEvent" /\ payload = "IssueCommentEvent"
    \/ variant = "WatchEvent" /\ payload \in HasAction

\* EventBase: id, actor, repo, created_at (org optional).
EventBaseValidate(event_raw) == event_raw.envelope

\* EventLight.model_validate: EventBase plus type: str.
EventLightValidate(event_raw) ==
    EventBaseValidate(event_raw) /\ event_raw.type # NoType

\* <variant>.model_validate: EventBase, the type literal and the payload.
VariantValidate(variant, event_raw) ==
    /\ EventBaseValidate(event_raw)
    /\ event_raw.type \in TypeLiteral(variant)
    /\ PayloadValidate(variant, event_raw.payload)

\* The typed event a successful validation builds.
TypedEvent(variant, event_raw) ==
    [model |-> variant, type |-> event_raw.type, payload |-> event_raw.payload]

\* Field(discriminator="type"): the union members whose literal is the tag.
TaggedVariants(event_raw) ==
    {v \in EventUnion : event_raw.type \in TypeLiteral(v)}

\* Event validation of one record inside Events: the tag selects the variant,
\* the variant validates the record.
EventValidate(event_raw) ==
    \E v \in TaggedVariants(event_raw) : VariantValidate(v, event_raw)

EventDecode(event_raw) ==
    TypedEvent(CHOOSE v \in TaggedVariants(event_raw) :
                   VariantValidate(v, event_raw), event_raw)

\* Events = RootModel[list[Event]]; model_validate raises ValidationError when
\* any record fails.
EventsValidate(raw) == \A k \in 1..Len(raw) : EventValidate(raw[k])
EventsRoot(raw) == [k \in 1..Len(raw) |-> EventDecode(raw[k])]

----------------------------------------------------------------------------
(* Tolerant Decoder (main.py, load_events)                                 *)

\* The if/elif chain on event_light.type: the class whose model_validate is
\* called, or Unexpected for the else branch.
Unexpected == "<unexpected>"

DispatchTypes ==
    {"CommitCommentEvent", "CreateEvent", "DeleteEvent", "ForkEvent",
     "GollumEvent", "IssueCommentEvent", "IssuesEvent", "MemberEvent",
     "PublicEvent", "PullRequestEvent", "PullRequestReviewEvent",
     "PullRequestReviewCommentEvent", "PullRequestReviewThreadEvent",
     "PushEvent", "ReleaseEvent", "SponsorshipEvent", "WatchEvent"}

Dispatch_swapped(type) ==
    IF type = "IssueCommentEvent" THEN "IssuesEvent"
    ELSE IF type \in DispatchTypes THEN type ELSE Unexpected
Dispatch(type) == IF type \in DispatchTypes THEN type ELSE Unexpected

\* One iteration of the fallback loop on event_raw. The else branch evaluates
\* ValidationError("Unexpected event type: ..."); pydantic's ValidationError
\* has no Python constructor, so the call raises TypeError, which the
\* except ValidationError clause does not catch.
FallbackRecord(event_raw) ==
    IF ~EventLightValidate(event_raw) THEN [outcome |-> "skip_light"]
    ELSE LET model == Dispatch(event_raw.type) IN
         IF model = Unexpected THEN [outcome |-> "TypeError"]
         ELSE IF VariantValidate(model, event_raw)
              THEN [outcome |-> "append", event_obj |-> TypedEvent(model, event_raw)]
              ELSE [outcome |-> "skip"]

\* The whole fallback loop as a fold: the list built, the rejections logged,
\* and whether an exception left the loop.
RECURSIVE FallbackFold(_, _, _)
FallbackFold(raw, k, acc) ==
    IF k > Len(raw) \/ acc.raised THEN acc
    ELSE LET r == FallbackRecord(raw[k]) IN
         FallbackFold(raw, k + 1,
            CASE r.outcome = "append" ->
                    [acc EXCEPT !.list = Append(@, r.event_obj)]
              [] r.outcome = "TypeError" -> [acc EXCEPT !.raised = TRUE]
              [] OTHER -> [acc EXCEPT !.rejected = @ + 1])

FallbackAll(raw) ==
    FallbackFold(raw, 1, [list |-> <<>>, rejected |-> 0, raised |-> FALSE])

----------------------------------------------------------------------------
(* Inputs of load_events                                                   *)

InputTypes ==
    {"PullRequestEvent", "IssueCommentEvent", "WatchEvent",
     "DiscussionEvent", NoType}

\* For a known type the payload built for it or a malformed one; for an
\* unknown or missing type a payload with an action or a malformed one.
InputPayloads(type) ==
    IF type \in EventUnion THEN {type, Malformed} ELSE {"WatchEvent", Malformed}

RawRecords ==
    {r \in [type : InputTypes, envelope : BOOLEAN,
            payload : EventUnion \cup {Malformed}] :
        r.payload \in InputPayloads(r.type)}

RawBatches == UNION {[1..n -> RawRecords] : n \in 0..MaxBatch}

----------------------------------------------------------------------------
(* load_events as a state machine                                          *)

InitLoad ==
    /\ pc = "load"
    /\ events_raw \in RawBatches
    /\ cursor = 1
    /\ events_list = <<>>
    /\ rejected = 0
    /\ warned = FALSE
    /\ result = <<>>
    /\ events = <<>>
    /\ todo = <<>>
    /\ done = <<>>
    /\ repositories = <<>>
    /\ GITHUB_TOKEN = Some("token")
    /\ snapshot = Some(events_raw)
    /\ work = <<"read">>

\* try: Events.model_validate(events_raw); return events_obj.root
StrictReturn ==
    /\ pc = "load"
    /\ EventsValidate(events_raw)
    /\ result' = EventsRoot(events_raw)
    /\ pc' = "returned"
    /\ UNCHANGED <<events_raw, cursor, events_list, rejected, warned, mainVars, envVars>>

\* except ValidationError: print the warning and fall back
StrictFail ==
    /\ pc = "load"
    /\ ~EventsValidate(events_raw)
    /\ warned' = TRUE
    /\ pc' = "fallback"
    /\ UNCHANGED <<events_raw, cursor, events_list, rejected, result, mainVars, envVars>>

\* for event_raw in events_raw: one iteration
FallbackStep ==
    /\ pc = "fallback"
    /\ cursor <= Len(events_raw)
    /\ LET r == FallbackRecord(events_raw[cursor]) IN
         CASE r.outcome = "append" ->
                /\ events_list' = Append(events_list, r.event_obj)
                /\ cursor' = cursor + 1
                /\ UNCHANGED <<rejected, pc>>
           [] r.outcome = "TypeError" ->
                /\ pc' = "raised"
                /\ UNCHANGED <<events_list, cursor, rejected>>
           [] OTHER ->
                /\ rejected' = rejected + 1
                /\ cursor' = cursor + 1
                /\ UNCHANGED <<events_list, pc>>
    /\ UNCHANGED <<events_raw, warned, result, mainVars, envVars>>

\* return events_list
FallbackReturn ==
    /\ pc = "fallback"
    /\ cursor > Len(events_raw)
    /\ result' = events_list
    /\ pc' = "returned"
    /\ UNCHANGED <<events_raw, cursor, events_list, rejected, warned, mainVars, envVars>>

NextLoad == StrictReturn \/ StrictFail \/ FallbackStep \/ FallbackReturn

SpecLoad == InitLoad /\ [][NextLoad]_vars

----------------------------------------------------------------------------
(* Aggregation Reducer (main.py, main)                                     *)

\* A piece of text is the sequence of its whitespace-separated tokens; the
\* token "#<digits>" is [word |-> "#", id |-> <digits>], any other token is
\* [word |-> <the token>, id |-> 0].
Word(w) == [word |-> w, id |-> 0]
Ref(n) == [word |-> "#", id |-> n]

\* re.IGNORECASE on the words the inputs use.
Lower(w) ==
    CASE w = "Fixes" -> "fixes"
      [] w = "Closes" -> "closes"
      [] w = "Resolves" -> "resolves"
      [] OTHER -> w

\* close(?:s|d)?|fix(?:es|ed)?|resolve(?:s|d)?
Keywords ==
    {"close", "closes", "closed", "fix", "fixes", "fixed",
     "resolve", "resolves", "resolved"}

\* ISSUE_PR_LINK_PATTERN.finditer(body): a keyword, whitespace, "#<digits>";
\* the ids of all matches.
ISSUE_PR_LINK_PATTERN(text) ==
    {text[k + 1].id : k \in {j \in 1..(Len(text) - 1) :
        Lower(text[j].word) \in Keywords /\ text[j + 1].word = "#"}}

\* str(number), the key of Repository.pull_requests and Repository.issues.
Str(n) == <<"1", "2", "3", "4", "5", "6", "7", "8", "9">>[n]

\* dict[key] = value
Put(map, key, value) ==
    [k \in DOMAIN map \cup {key} |-> IF k = key THEN value ELSE map[k]]

\* filter(pred, events): the events of one type, in input order.
FilterType_all(seq, type) == seq
RECURSIVE FilterType(_, _)
FilterType(seq, type) ==
    IF seq = <<>> THEN <<>>
    ELSE (IF Head(seq).type = type THEN <<Head(seq)>> ELSE <<>>)
         \o FilterType(Tail(seq), type)

\* sorted(..., key=lambda event: event.created_at): a stable sort, an event
\* goes after every event already placed whose key is not greater.
RECURSIVE InsertSorted_desc(_, _)
InsertSorted_desc(sorted, event) ==
    IF sorted = <<>> THEN <<event>>
    ELSE IF Head(sorted).created_at >= event.created_at
         THEN <<Head(sorted)>> \o InsertSorted_desc(Tail(sorted), event)
         ELSE <<event>> \o sorted
RECURSIVE InsertSorted(_, _)
InsertSorted(sorted, event) ==
    IF sorted = <<>> THEN <<event>>
    ELSE IF Head(sorted).created_at <= event.created_at
         THEN <<Head(sorted)>> \o InsertSorted(Tail(sorted), event)
         ELSE <<event>> \o sorted

SortByCreatedAt_unsorted(seq) == seq
RECURSIVE SortByCreatedAt(_)
SortByCreatedAt(seq) ==
    IF seq = <<>> THEN <<>>
    ELSE InsertSorted(SortByCreatedAt(SubSeq(seq, 1, Len(seq) - 1)),
                      seq[Len(seq)])

\* Action(action=f"{prefix}{event.payload.action}", date=..., by=...); the
\* formatted string is kept as its two parts.
Action(prefix, event) ==
    [action |-> <<prefix, event.action>>,
     date |-> event.created_at,
     by |-> event.actor_login]

\* Repository(name=repo_name, pull_requests={}, issues={}, branches={})
Repository(repo_name) ==
    [name |-> repo_name, pull_requests |-> <<>>, issues |-> <<>>,
     branches |-> <<>>]

\* if not repo_name in repositories: ... else: repo = repositories[repo_name]
ResolveRepository(repos, repo_name) ==
    IF repo_name \in DOMAIN repos THEN repos
    ELSE Put(repos, repo_name, Repository(repo_name))

\* PullRequest(...) built from a PullRequestEvent
PullRequestOfEvent(event) ==
    [number |-> event.number,
     title |-> event.title,
     creator |-> event.user_login,
     linked_issues |-> {},
     linked_issues_ids |-> {},
     branch |-> Some([ref |-> event.head_ref, repo |-> event.head_repo,
                      commits |-> {}]),
     actions |-> <<>>]

\* PullRequest(...) built from an IssueCommentEvent
PullRequestOfComment_branch(event) ==
    [number |-> event.number,
     title |-> event.title,
     creator |-> event.user_login,
     linked_issues |-> {},
     linked_issues_ids |-> {},
     branch |-> Some([ref |-> event.head_ref, repo |-> event.head_repo,
                      commits |-> {}]),
     actions |-> <<>>]
PullRequestOfComment(event) ==
    [number |-> event.number,
     title |-> event.title,
     creator |-> event.user_login,
     linked_issues |-> {},
     linked_issues_ids |-> {},
     branch |-> None,
     actions |-> <<>>]

\* Issue(...) built from an IssueCommentEvent
IssueOfComment(event) ==
    [number |-> event.number,
     title |-> event.title,
     creator |-> event.user_login,
     actions |-> <<>>]

\* if key in map: map[key] else: the new aggregate, stored under key
Resolve_overwrite(map, key, fresh) ==
    IF key \in DOMAIN map
    THEN [fresh EXCEPT !.actions = map[key].actions] ELSE fresh
Resolve_recreate(map, key, fresh) == fresh
Resolve(map, key, fresh) == IF key \in DOMAIN map THEN map[key] ELSE fresh

\* if event.payload.pull_request.body: clear() then update(...)
UpdateLinkedIssues_union(pr, event) ==
    IF event.body # None /\ event.body[1] # <<>>
    THEN [pr EXCEPT !.linked_issues_ids = @ \cup ISSUE_PR_LINK_PATTERN(event.body[1])]
    ELSE pr
UpdateLinkedIssues(pr, event) ==
    IF event.body # None /\ event.body[1] # <<>>
    THEN [pr EXCEPT !.linked_issues_ids = ISSUE_PR_LINK_PATTERN(event.body[1])]
    ELSE pr

\* The body of the PullRequestEvent loop on one event.
ProcessPullRequestEvent_shared(repos, event) ==
    LET repos1 == ResolveRepository(repos, event.repo_name)
        issue_number == Str(event.number)
        pr == Resolve(repos1[event.repo_name].pull_requests, issue_number,
                      PullRequestOfEvent(event))
        pr1 == [pr EXCEPT !.actions = Append(@, Action("PR ", event))]
        pr2 == UpdateLinkedIssues(pr1, event)
    IN [r \in DOMAIN repos1 |->
          [repos1[r] EXCEPT !.pull_requests = Put(@, issue_number, pr2)]]
ProcessPullRequestEvent(repos, event) ==
    LET repos1 == ResolveRepository(repos, event.repo_name)
        repo == repos1[event.repo_name]
        issue_number == Str(event.number)
        pr == Resolve(repo.pull_requests, issue_number,
                      PullRequestOfEvent(event))
        pr1 == [pr EXCEPT !.actions = Append(@, Action("PR ", event))]
        pr2 == UpdateLinkedIssues(pr1, event)
    IN [repos1 EXCEPT ![event.repo_name].pull_requests =
                          Put(@, issue_number, pr2)]

\* The body of the IssueCommentEvent loop on one event.
ProcessIssueCommentEvent_asissue(repos, event) ==
    LET repos1 == ResolveRepository(repos, event.repo_name)
        repo == repos1[event.repo_name]
        issue_number == Str(event.number)
        issue == Resolve(repo.issues, issue_number, IssueOfComment(event))
        issue1 == [issue EXCEPT
                     !.actions = Append(@, Action("Issue comment ", event))]
    IN [repos1 EXCEPT ![event.repo_name].issues = Put(@, issue_number, issue1)]
ProcessIssueCommentEvent(repos, event) ==
    LET repos1 == ResolveRepository(repos, event.repo_name)
        repo == repos1[event.repo_name]
        issue_number == Str(event.number)
    IN IF event.pull_request # None
       THEN LET pr == Resolve(repo.pull_requests, issue_number,
                              PullRequestOfComment(event))
                pr1 == [pr EXCEPT
                          !.actions = Append(@, Action("PR comment ", event))]
            IN [repos1 EXCEPT ![event.repo_name].pull_requests =
                                  Put(@, issue_number, pr1)]
       ELSE LET issue == Resolve(repo.issues, issue_number,
                                 IssueOfComment(event))
                issue1 == [issue EXCEPT
                             !.actions = Append(@, Action("Issue comment ", event))]
            IN [repos1 EXCEPT ![event.repo_name].issues =
                                  Put(@, issue_number, issue1)]

----------------------------------------------------------------------------
(* Inputs of the reducer                                                   *)

\* "Fixes #42 and closes #7", "resolves #9", "see #5"
BodyFixes == <<Word("Fixes"), Ref(42), Word("and"), Word("closes"), Ref(7)>>
BodyResolves == <<Word("resolves"), Ref(9)>>
BodySee == <<Word("see"), Ref(5)>>

\* Two sets of values for the fields that only label an event.
Flavour(f) ==
    IF f = "a"
    THEN [actor_login |-> "alice", action |-> "opened", title |-> "Add report",
          user_login |-> "alice", head_ref |-> "report",
          head_repo |-> "alice/gar"]
    ELSE [actor_login |-> "bob", action |-> "closed", title |-> "Add a report",
          user_login |-> "carol", head_ref |-> "report-2",
          head_repo |-> "carol/gar"]

PREvent(repo_name, number, created_at, f, body) ==
    [type |-> "PullRequestEvent", repo_name |-> repo_name, number |-> number,
     created_at |-> created_at, actor_login |-> Flavour(f).actor_login,
     action |-> Flavour(f).action, title |-> Flavour(f).title,
     user_login |-> Flavour(f).user_login, head_ref |-> Flavour(f).head_ref,
     head_repo |-> Flavour(f).head_repo, body |-> body, pull_request |-> None]

ICEvent(repo_name, number, created_at, f, pull_request) ==
    [type |-> "IssueCommentEvent", repo_name |-> repo_name, number |-> number,
     created_at |-> created_at, actor_login |-> Flavour(f).actor_login,
     action |-> "created", title |-> Flavour(f).title,
     user_login |-> Flavour(f).user_login, head_ref |-> "",
     head_repo |-> "", body |-> None, pull_request |-> pull_request]

OtherEvent ==
    [type |-> "PushEvent", repo_name |-> "r1", number |-> 1,
     created_at |-> 1, actor_login |-> "alice", action |-> "",
     title |-> "", user_login |-> "", head_ref |-> "", head_repo |-> "",
     body |-> None, pull_request |-> None]

Times == {1, 2}

PRVariants ==
    {<<"a", Some(BodyFixes)>>, <<"b", None>>, <<"b", Some(BodyResolves)>>}

ICVariants == {<<"a", Some("link")>>, <<"b", None>>}

\* Repository r1 has events at both times and a second number; repository r2
\* has events of number 1 at time 1.
EventSamples ==
    {PREvent("r1", 1, t, v[1], v[2]) : t \in Times, v \in PRVariants}
    \cup {PREvent("r2", 1, 1, v[1], v[2]) : v \in PRVariants}
    \cup {PREvent("r1", 1, 2, "b", Some(<<>>)),
          PREvent("r1", 1, 2, "a", Some(BodySee)),
          PREvent("r1", 2, 1, "a", Some(BodyFixes))}
    \cup {ICEvent("r1", 1, t, v[1], v[2]) : t \in Times, v \in ICVariants}
    \cup {ICEvent("r2", 1, 1, v[1], v[2]) : v \in ICVariants}
    \cup {ICEvent("r1", 1, 2, "b", Some("link")),
          ICEvent("r1", 2, 1, "a", Some("link"))}
    \cup {OtherEvent}

EventSeqs == UNION {[1..n -> EventSamples] : n \in 0..MaxEvents}

----------------------------------------------------------------------------
(* The two passes of main as a state machine                               *)

InitReduce ==
    /\ pc = "main"
    /\ events \in EventSeqs
    /\ todo = <<>>
    /\ done = <<>>
    /\ repositories = <<>>
    /\ events_raw = <<>>
    /\ cursor = 1
    /\ events_list = <<>>
    /\ rejected = 0
    /\ warned = FALSE
    /\ result = <<>>
    /\ GITHUB_TOKEN = Some("token")
    /\ snapshot = None
    /\ work = <<>>

\* for event in sorted(filter(event_is_pull_request, events), key=...)
StartPullRequestPass ==
    /\ pc = "main"
    /\ todo' = SortByCreatedAt(FilterType(events, "PullRequestEvent"))
    /\ pc' = "pull_requests"
    /\ UNCHANGED <<events, done, repositories, loadVars, envVars>>

PullRequestStep ==
    /\ pc = "pull_requests"
    /\ todo # <<>>
    /\ repositories' = ProcessPullRequestEvent(repositories, Head(todo))
    /\ done' = Append(done, Head(todo))
    /\ todo' = Tail(todo)
    /\ UNCHANGED <<pc, events, loadVars, envVars>>

\* for event in sorted(filter(event_is_issue_comment, events), key=...)
StartIssueCommentPass ==
    /\ pc = "pull_requests"
    /\ todo = <<>>
    /\ todo' = SortByCreatedAt(FilterType(events, "IssueCommentEvent"))
    /\ pc' = "issue_comments"
    /\ UNCHANGED <<events, done, repositories, loadVars, envVars>>

IssueCommentStep ==
    /\ pc = "issue_comments"
    /\ todo # <<>>
    /\ repositories' = ProcessIssueCommentEvent(repositories, Head(todo))
    /\ done' = Append(done, Head(todo))
    /\ todo' = Tail(todo)
    /\ UNCHANGED <<pc, events, loadVars, envVars>>

\* for repo in repositories.values(): print ... (reads only)
Render ==
    /\ pc = "issue_comments"
    /\ todo = <<>>
    /\ pc' = "done"
    /\ UNCHANGED <<events, todo, done, repositories, loadVars, envVars>>

NextReduce ==
    \/ StartPullRequestPass
    \/ PullRequestStep
    \/ StartIssueCommentPass
    \/ IssueCommentStep
    \/ Render

SpecReduce == InitReduce /\ [][NextReduce]_vars

----------------------------------------------------------------------------
(* main from its first line (SpecMain)                                     *)

MaxSnapshot == 2   \* longest raw batch the snapshot or the API holds

SnapshotBatches == UNION {[1..n -> RawRecords] : n \in 0..MaxSnapshot}

\* The environment's values of GAR_GITHUB_TOKEN: unset, empty, set.
Tokens == {None, Some(""), Some("token")}

\* The field values of a decoded event; the records of a snapshot carry one
\* set of values per type.
EventOfTyped(typed) ==
    CASE typed.model = "PullRequestEvent" ->
            PREvent("r1", 1, 1, "a", Some(BodyFixes))
      [] typed.model = "IssueCommentEvent" ->
            ICEvent("r1", 1, 1, "a", Some("link"))
      [] OTHER -> [OtherEvent EXCEPT !.type = typed.model]

InitMain ==
    /\ pc = "start"
    /\ GITHUB_TOKEN \in Tokens
    /\ snapshot \in {None} \cup {Some(b) : b \in SnapshotBatches}
    /\ work = <<>>
    /\ events_raw = <<>>
    /\ cursor = 1
    /\ events_list = <<>>
    /\ rejected = 0
    /\ warned = FALSE
    /\ result = <<>>
    /\ events = <<>>
    /\ todo = <<>>
    /\ done = <<>>
    /\ repositories = <<>>

\* if not GITHUB_TOKEN: raise Exception(...)
TokenMissing ==
    /\ pc = "start"
    /\ GITHUB_TOKEN = None \/ GITHUB_TOKEN = Some("")
    /\ pc' = "raised"
    /\ UNCHANGED <<loadVars, mainVars, envVars>>

TokenPresent_unchecked ==
    /\ pc = "start"
    /\ pc' = "snapshot"
    /\ UNCHANGED <<loadVars, mainVars, envVars>>
TokenPresent ==
    /\ pc = "start"
    /\ ~(GITHUB_TOKEN = None \/ GITHUB_TOKEN = Some(""))
    /\ pc' = "snapshot"
    /\ UNCHANGED <<loadVars, mainVars, envVars>>

\* if not INITIAL_EVENTS_PATH.exists(): get_all_initial_events(), which
\* requests the pages of the events API and dumps them to the file
FetchSnapshot ==
    /\ pc = "snapshot"
    /\ snapshot = None
    /\ \E batch \in SnapshotBatches : snapshot' = Some(batch)
    /\ work' = Append(work, "fetch")
    /\ pc' = "load_events"
    /\ UNCHANGED <<loadVars, mainVars, GITHUB_TOKEN>>

\* response.raise_for_status() or a missing header assertion leaves main
FetchFails ==
    /\ pc = "snapshot"
    /\ snapshot = None
    /\ work' = Append(work, "fetch")
    /\ pc' = "raised"
    /\ UNCHANGED <<loadVars, mainVars, GITHUB_TOKEN, snapshot>>

SnapshotExists ==
    /\ pc = "snapshot"
    /\ snapshot # None
    /\ pc' = "load_events"
    /\ UNCHANGED <<loadVars, mainVars, envVars>>

\* events_raw = json.loads(INITIAL_EVENTS_PATH.read_text())
ReadSnapshot ==
    /\ pc = "load_events"
    /\ events_raw' = snapshot[1]
    /\ work' = Append(work, "read")
    /\ pc' = "load"
    /\ UNCHANGED <<cursor, events_list, rejected, warned, result, mainVars,
                   GITHUB_TOKEN, snapshot>>

\* events = load_events(); repositories = {}
EventsLoaded ==
    /\ pc = "returned"
    /\ events' = [k \in 1..Len(result) |-> EventOfTyped(result[k])]
    /\ pc' = "main"
    /\ UNCHANGED <<todo, done, repositories, loadVars, envVars>>

NextMain ==
    \/ TokenMissing
    \/ TokenPresent
    \/ FetchSnapshot
    \/ FetchFails
    \/ SnapshotExists
    \/ ReadSnapshot
    \/ StrictReturn
    \/ StrictFail
    \/ FallbackStep
    \/ FallbackReturn
    \/ EventsLoaded
    \/ StartPullRequestPass
    \/ PullRequestStep
    \/ StartIssueCommentPass
    \/ IssueCommentStep
    \/ Render

SpecMain == InitMain /\ [][NextMain]_vars

----------------------------------------------------------------------------
(* Properties of load_events (SpecLoad)                                    *)

\* A record every schema of its own variant accepts.
WellFormedRecord(r) ==
    r.envelope /\ r.type \in EventUnion /\ r.payload = r.type

\* A record that fails envelope validation (a bad EventBase field, or no
\* string type) or the payload validation of its known variant.
MalformedRecord(r) ==
    \/ ~r.envelope
    \/ r.type = NoType
    \/ r.type \in EventUnion /\ r.payload = Malformed

\* A record with a valid envelope whose discriminator is no known variant.
UnknownVariantRecord(r) ==
    r.envelope /\ r.type # NoType /\ r.type \notin EventUnion

WellFormedBatch == \A k \in 1..Len(events_raw) : WellFormedRecord(events_raw[k])

OneMalformed ==
    \E k \in 1..Len(events_raw) :
        /\ MalformedRecord(events_raw[k])
        /\ \A j \in 1..Len(events_raw) : j # k => WellFormedRecord(events_raw[j])

\* The well-formed records of the batch, in input order, as typed events.
RECURSIVE ExpectedEvents(_)
ExpectedEvents(raw) ==
    IF raw = <<>> THEN <<>>
    ELSE LET r == Head(raw) IN
         (IF WellFormedRecord(r)
          THEN <<[model |-> r.type, type |-> r.type, payload |-> r.payload]>>
          ELSE <<>>) \o ExpectedEvents(Tail(raw))

\* C1: load_events never raises to its caller because of a single bad record
\* (bad envelope, bad payload, or unknown discriminator): it always returns.
C1_NeverRaises == pc # "raised"

\* C2: one malformed record injected at any position into an otherwise valid
\* N-record batch: load_events returns exactly the N-1 valid events in their
\* input order and logs exactly one rejection.
C2_OneMalformedSkipped ==
    OneMalformed =>
        /\ pc # "raised"
        /\ pc = "returned" =>
             /\ result = ExpectedEvents(events_raw)
             /\ Len(result) = Len(events_raw) - 1
             /\ rejected = 1

C2_Witness ==
    /\ pc = "returned"
    /\ OneMalformed
    /\ Len(events_raw) = 3
    /\ MalformedRecord(events_raw[2])
    /\ Len(result) = 2
    /\ result[1].model # result[2].model

\* C3: on a wholly well-formed batch the strict whole-batch validation and
\* the per-record fallback loop build the same sequence of typed events
\* (same length, order and variant per record), the fallback rejecting none.
C3_StrictEqualsFallback ==
    WellFormedBatch =>
        /\ EventsValidate(events_raw)
        /\ ~FallbackAll(events_raw).raised
        /\ FallbackAll(events_raw).rejected = 0
        /\ FallbackAll(events_raw).list = EventsRoot(events_raw)

C3_Witness ==
    /\ pc = "returned"
    /\ WellFormedBatch
    /\ Len(events_raw) = 3
    /\ result = FallbackAll(events_raw).list
    /\ Cardinality({result[k].model : k \in 1..3}) = 3

\* C4: no list load_events builds or returns, on the strict or the fallback
\* path, holds an event decoded from a record whose type is not a known
\* variant.
C4_UnknownNeverDecoded ==
    /\ \A k \in 1..Len(result) : result[k].type \in EventUnion
    /\ \A k \in 1..Len(events_list) : events_list[k].type \in EventUnion

C4_Witness ==
    /\ pc = "returned"
    /\ Len(result) = 2
    /\ \E k \in 1..Len(events_raw) :
          /\ events_raw[k].type = "DiscussionEvent"
          /\ events_raw[k].payload = "WatchEvent"

----------------------------------------------------------------------------
(* Properties of the reducer (SpecReduce)                                  *)

\* The PullRequest aggregate an event is about: every PullRequestEvent, and
\* every IssueCommentEvent whose issue has the pull-request sub-link.
IsPullRequestEvent(e) == e.type = "PullRequestEvent"
IsPullRequestComment(e) ==
    e.type = "IssueCommentEvent" /\ e.pull_request # None
IsIssueComment(e) ==
    e.type = "IssueCommentEvent" /\ e.pull_request = None
About(e, r, k) == e.repo_name = r /\ Str(e.number) = k

\* All (repository, key) pairs that hold a PullRequest aggregate.
PullRequestKeys ==
    {rk \in (DOMAIN repositories) \X {Str(n) : n \in 1..9} :
        rk[2] \in DOMAIN repositories[rk[1]].pull_requests}

PullRequestAt(rk) == repositories[rk[1]].pull_requests[rk[2]]

\* The action an event is expected to leave.
ExpectedAction(prefix, e) ==
    [action |-> <<prefix, e.action>>, date |-> e.created_at,
     by |-> e.actor_login]

IsPRVerbAction(a) == a.action[1] = "PR "

PassADone == pc \in {"issue_comments", "done"}

\* The step that processes the event at the head of the pass.
Processing == pc \in {"pull_requests", "issue_comments"} /\ todo # <<>>

\* C5: two PullRequestEvents of one repository and PR number: the action of
\* the earlier timestamp comes first whatever the input order, and equal
\* timestamps keep the input order. Stated on the whole 'PR <verb>' history:
\* it is the PR's PullRequestEvents taken in (timestamp, input position)
\* order.
C5_ActionsInTimestampOrder ==
    PassADone =>
      \A rk \in PullRequestKeys :
        LET F == {i \in 1..Len(events) :
                     IsPullRequestEvent(events[i]) /\ About(events[i], rk[1], rk[2])}
            A == SelectSeq(PullRequestAt(rk).actions, IsPRVerbAction)
        IN /\ Len(A) = Cardinality(F)
           /\ \E pi \in [1..Len(A) -> F] :
                /\ \A p, q \in 1..Len(A) : p # q => pi[p] # pi[q]
                /\ \A p \in 1..Len(A) : A[p] = ExpectedAction("PR ", events[pi[p]])
                /\ \A p, q \in 1..Len(A) : p < q =>
                      \/ events[pi[p]].created_at < events[pi[q]].created_at
                      \/ /\ events[pi[p]].created_at = events[pi[q]].created_at
                         /\ pi[p] < pi[q]

C5_Witness ==
    /\ pc = "done"
    /\ Len(events) = 3
    /\ \A i \in 1..3 : IsPullRequestEvent(events[i]) /\ About(events[i], "r1", "1")
    /\ events[1].created_at = 2
    /\ events[2].created_at = 1
    /\ events[3].created_at = 1
    /\ events[2].action # events[3].action
    /\ repositories["r1"].pull_requests["1"].actions =
         <<ExpectedAction("PR ", events[2]), ExpectedAction("PR ", events[3]),
           ExpectedAction("PR ", events[1])>>

\* The issue numbers the closing-keyword pattern is expected to extract.
ExpectedIds(text) ==
    CASE text = BodyFixes -> {42, 7}
      [] text = BodyResolves -> {9}
      [] OTHER -> {}

NonEmptyBody(e) == e.body # None /\ e.body[1] # <<>>

\* C6: a PullRequest aggregate's linked-issue set is the set extracted from
\* the body of the latest processed PullRequestEvent of that PR whose body is
\* non-empty (replaced, not united), and empty when there is none; an event
\* with an empty or absent body leaves it as it is.
C6_LinkedIssuesOfLatestBody ==
    \A rk \in PullRequestKeys :
        LET P == {p \in 1..Len(done) :
                     /\ IsPullRequestEvent(done[p])
                     /\ About(done[p], rk[1], rk[2])
                     /\ NonEmptyBody(done[p])}
        IN PullRequestAt(rk).linked_issues_ids =
             IF P = {} THEN {}
             ELSE ExpectedIds(done[CHOOSE p \in P : \A q \in P : q <= p].body[1])

C6_Witness ==
    /\ Len(done) = 3
    /\ \A p \in 1..3 : IsPullRequestEvent(done[p]) /\ About(done[p], "r1", "1")
    /\ done[1].body = Some(BodyFixes)
    /\ ~NonEmptyBody(done[2])
    /\ done[3].body = Some(BodyResolves)
    /\ repositories["r1"].pull_requests["1"].linked_issues_ids = {9}

\* The second half of the example of C6: after the body "Fixes #42 and closes
\* #7" and an event without body the set is still {42, 7}.
C6_WitnessKept ==
    /\ Len(done) = 2
    /\ \A p \in 1..2 : IsPullRequestEvent(done[p]) /\ About(done[p], "r1", "1")
    /\ done[1].body = Some(BodyFixes)
    /\ ~NonEmptyBody(done[2])
    /\ repositories["r1"].pull_requests["1"].linked_issues_ids = {42, 7}

\* C7: an IssueCommentEvent whose issue has the pull-request sub-link creates
\* or updates the PullRequest aggregate of its repository keyed by the issue
\* number, the one PullRequestEvents of that number use (its earlier actions
\* are kept), and leaves the repository's Issue aggregates alone; every
\* PullRequest aggregate sits under the key of its own number.
C7_CommentOnPullRequest ==
    /\ [](\A rk \in PullRequestKeys : Str(PullRequestAt(rk).number) = rk[2])
    /\ [][(pc = "issue_comments" /\ todo # <<>> /\ IsPullRequestComment(Head(todo))) =>
            LET e == Head(todo)
                r == e.repo_name
                k == Str(e.number)
                old == IF r \in DOMAIN repositories
                          /\ k \in DOMAIN repositories[r].pull_requests
                       THEN repositories[r].pull_requests[k].actions
                       ELSE <<>>
                oldIssues == IF r \in DOMAIN repositories
                             THEN repositories[r].issues ELSE <<>>
            IN /\ r \in DOMAIN repositories'
               /\ k \in DOMAIN repositories'[r].pull_requests
               /\ repositories'[r].pull_requests[k].actions =
                     Append(old, ExpectedAction("PR comment ", e))
               /\ repositories'[r].issues = oldIssues]_vars

C7_Witness ==
    /\ pc = "done"
    /\ "r1" \in DOMAIN repositories
    /\ "1" \in DOMAIN repositories["r1"].pull_requests
    /\ "1" \notin DOMAIN repositories["r1"].issues
    /\ LET a == repositories["r1"].pull_requests["1"].actions
       IN /\ Len(a) = 2
          /\ a[1].action[1] = "PR "
          /\ a[2].action[1] = "PR comment "

\* C8: an event of repository R creates or changes aggregates of the
\* Repository keyed by R only: every other Repository is the same after the
\* event, also when it holds an aggregate of the same number.
C8_RepositoriesAreDisjoint ==
    [][Processing =>
         LET e == Head(todo) IN
         /\ DOMAIN repositories' = DOMAIN repositories \cup {e.repo_name}
         /\ repositories'[e.repo_name].name = e.repo_name
         /\ \A r \in DOMAIN repositories :
               r # e.repo_name => repositories'[r] = repositories[r]]_vars

C8_Witness ==
    /\ pc = "done"
    /\ DOMAIN repositories = {"r1", "r2"}
    /\ "1" \in DOMAIN repositories["r1"].pull_requests
    /\ "1" \in DOMAIN repositories["r2"].pull_requests
    /\ repositories["r1"].pull_requests["1"] # repositories["r2"].pull_requests["1"]
    /\ Len(repositories["r1"].pull_requests["1"].actions) = 2

\* The positions in done of the events about one PullRequest aggregate.
EventsAbout(rk) ==
    {p \in 1..Len(done) :
        /\ IsPullRequestEvent(done[p]) \/ IsPullRequestComment(done[p])
        /\ About(done[p], rk[1], rk[2])}

\* C9 as stated: after the run a PullRequest aggregate's title and creator
\* are those of the last event processed for that PR (last write wins).
C9_LastWriteWins ==
    pc = "done" =>
      \A rk \in PullRequestKeys :
        LET last == done[CHOOSE p \in EventsAbout(rk) :
                            \A q \in EventsAbout(rk) : q <= p]
        IN /\ PullRequestAt(rk).title = last.title
           /\ PullRequestAt(rk).creator = last.user_login

\* C9 amended: a PullRequest aggregate's title and creator are those of the
\* first event processed for that PR (first write wins): they are set when
\* the aggregate is created and never written again.
C9_FirstWriteWins ==
    \A rk \in PullRequestKeys :
        LET first == done[CHOOSE p \in EventsAbout(rk) :
                             \A q \in EventsAbout(rk) : p <= q]
        IN /\ PullRequestAt(rk).title = first.title
           /\ PullRequestAt(rk).creator = first.user_login

C9_Witness ==
    /\ pc = "done"
    /\ \E rk \in PullRequestKeys :
         \E p, q \in EventsAbout(rk) :
            /\ p < q
            /\ \A x \in EventsAbout(rk) : x <= q
            /\ done[p].title # done[q].title
            /\ done[p].user_login # done[q].user_login
            /\ PullRequestAt(rk).title = done[p].title
            /\ PullRequestAt(rk).title # done[q].title

\* The event at the head of the pass was processed before.
Reprocessing ==
    Processing /\ \E p \in 1..Len(done) : done[p] = Head(todo)

\* C10 as stated: processing an event that was already processed leaves the
\* Repository map as it was.
C10_Idempotent == [][Reprocessing => repositories' = repositories]_vars

\* C10 amended: processing an event a second time creates no repository and
\* no aggregate and changes no number, title, creator, branch or linked-issue
\* object set, but appends one more action to the history of the event's
\* aggregate, and a PullRequestEvent with a non-empty body sets the
\* linked-issue set to the set extracted from its body.
C10_ReprocessAppendsAction ==
    [][Reprocessing =>
         LET e == Head(todo)
             r == e.repo_name
             k == Str(e.number)
             prefix == IF IsPullRequestEvent(e) THEN "PR "
                       ELSE IF IsPullRequestComment(e) THEN "PR comment "
                       ELSE "Issue comment "
             Strip(agg) == [agg EXCEPT !.actions = <<>>]
             StripPR(agg) == [agg EXCEPT !.actions = <<>>, !.linked_issues_ids = {}]
         IN /\ DOMAIN repositories' = DOMAIN repositories
            /\ \A x \in DOMAIN repositories :
                 /\ DOMAIN repositories'[x].pull_requests =
                      DOMAIN repositories[x].pull_requests
                 /\ DOMAIN repositories'[x].issues = DOMAIN repositories[x].issues
                 /\ \A y \in DOMAIN repositories[x].pull_requests :
                      LET old == repositories[x].pull_requests[y]
                          new == repositories'[x].pull_requests[y]
                          hit == x = r /\ y = k /\ ~IsIssueComment(e)
                      IN /\ StripPR(new) = StripPR(old)
                         /\ new.actions =
                              IF hit THEN Append(old.actions, ExpectedAction(prefix, e))
                              ELSE old.actions
                         /\ new.linked_issues_ids =
                              IF hit /\ IsPullRequestEvent(e) /\ NonEmptyBody(e)
                              THEN ExpectedIds(e.body[1])
                              ELSE old.linked_issues_ids
                 /\ \A y \in DOMAIN repositories[x].issues :
                      LET old == repositories[x].issues[y]
                          new == repositories'[x].issues[y]
                          hit == x = r /\ y = k /\ IsIssueComment(e)
                      IN /\ Strip(new) = Strip(old)
                         /\ new.actions =
                              IF hit THEN Append(old.actions, ExpectedAction(prefix, e))
                              ELSE old.actions]_vars

C10_Witness ==
    /\ pc = "done"
    /\ Len(done) = 3
    /\ done[1] = done[3]
    /\ done[2] # done[1]
    /\ IsPullRequestEvent(done[1])
    /\ IsPullRequestEvent(done[2])
    /\ About(done[1], "r1", "1")
    /\ About(done[2], "r1", "1")
    /\ LET a == repositories["r1"].pull_requests["1"].actions
       IN Len(a) = 3 /\ a[1] = a[3]

IsPRCommentAction(a) == a.action[1] = "PR comment "

\* C12: in every PullRequest aggregate's history the 'PR <verb>' actions are
\* in non-decreasing timestamp order, the 'PR comment <verb>' actions are in
\* non-decreasing timestamp order, and every 'PR <verb>' action comes before
\* every 'PR comment <verb>' action whatever their timestamps.
C12_HistoryOrderedPerPass ==
    \A rk \in PullRequestKeys :
        LET a == PullRequestAt(rk).actions IN
        \A p, q \in 1..Len(a) : p < q =>
            /\ IsPRVerbAction(a[p]) /\ IsPRVerbAction(a[q]) => a[p].date <= a[q].date
            /\ IsPRCommentAction(a[p]) /\ IsPRCommentAction(a[q]) =>
                  a[p].date <= a[q].date
            /\ ~(IsPRCommentAction(a[p]) /\ IsPRVerbAction(a[q]))

\* The history as a whole is not chronological: a 'PR <verb>' action of time 2
\* stands before a 'PR comment <verb>' action of time 1, each kind in order.
C12_Witness ==
    /\ pc = "done"
    /\ "r1" \in DOMAIN repositories
    /\ "1" \in DOMAIN repositories["r1"].pull_requests
    /\ LET a == repositories["r1"].pull_requests["1"].actions
       IN /\ Len(a) = 3
          /\ IsPRVerbAction(a[1]) /\ a[1].date = 1
          /\ IsPRVerbAction(a[2]) /\ a[2].date = 2
          /\ IsPRCommentAction(a[3]) /\ a[3].date = 1

\* All aggregates, as <<kind, repository, key>>.
Aggregates ==
    {x \in {"pr", "issue"} \X (DOMAIN repositories) \X {Str(n) : n \in 1..9} :
        x[3] \in DOMAIN (IF x[1] = "pr" THEN repositories[x[2]].pull_requests
                         ELSE repositories[x[2]].issues)}

ActionsOf(x) ==
    IF x[1] = "pr" THEN repositories[x[2]].pull_requests[x[3]].actions
    ELSE repositories[x[2]].issues[x[3]].actions

RECURSIVE TotalActions(_)
TotalActions(S) ==
    IF S = {} THEN 0
    ELSE LET x == CHOOSE y \in S : TRUE
         IN Len(ActionsOf(x)) + TotalActions(S \ {x})

IsAggregated(e) == e.type \in {"PullRequestEvent", "IssueCommentEvent"}

\* C13: every PullRequestEvent and every IssueCommentEvent appends one action
\* to one aggregate and no other event creates anything: the actions of all
\* aggregates number the events processed so far, at the end of the run the
\* PullRequestEvents plus IssueCommentEvents of the decoded sequence; the
\* repositories are those of these events; and every action has the actor
\* login and the creation timestamp of an event of its aggregate.
C13_OneActionPerEvent ==
    /\ TotalActions(Aggregates) = Len(done)
    /\ pc = "done" =>
         /\ Len(done) =
              Cardinality({i \in 1..Len(events) : IsAggregated(events[i])})
         /\ DOMAIN repositories =
              {events[i].repo_name : i \in {j \in 1..Len(events) :
                                              IsAggregated(events[j])}}
    /\ \A x \in Aggregates :
         \A p \in 1..Len(ActionsOf(x)) :
            \E i \in 1..Len(events) :
               /\ IsAggregated(events[i])
               /\ About(events[i], x[2], x[3])
               /\ ActionsOf(x)[p].by = events[i].actor_login
               /\ ActionsOf(x)[p].date = events[i].created_at
               /\ ActionsOf(x)[p].action[2] = events[i].action

C13_Witness ==
    /\ pc = "done"
    /\ Len(events) = 3
    /\ events[1] = OtherEvent
    /\ IsPullRequestEvent(events[2]) /\ events[2].repo_name = "r2"
    /\ IsIssueComment(events[3]) /\ events[3].repo_name = "r2"
    /\ DOMAIN repositories = {"r2"}
    /\ TotalActions(Aggregates) = 2

\* C14: at the end of the run a PullRequest aggregate has a branch, with an
\* empty commit set, exactly when a PullRequestEvent of its repository and
\* number was decoded; an aggregate made from IssueCommentEvents only has no
\* branch and an empty linked-issue set; and an IssueCommentEvent never
\* changes the branch or the linked-issue set of an existing aggregate.
C14_BranchOnlyFromPullRequestEvent ==
    /\ [](PassADone =>
            \A rk \in PullRequestKeys :
               LET native == \E i \in 1..Len(events) :
                                /\ IsPullRequestEvent(events[i])
                                /\ About(events[i], rk[1], rk[2])
                   pr == PullRequestAt(rk)
               IN /\ pr.branch # None <=> native
                  /\ pr.branch # None => pr.branch[1].commits = {}
                  /\ ~native => pr.linked_issues_ids = {})
    /\ [][(pc = "issue_comments" /\ todo # <<>>) =>
            \A rk \in PullRequestKeys :
               /\ rk[1] \in DOMAIN repositories'
               /\ rk[2] \in DOMAIN repositories'[rk[1]].pull_requests
               /\ repositories'[rk[1]].pull_requests[rk[2]].branch =
                     PullRequestAt(rk).branch
               /\ repositories'[rk[1]].pull_requests[rk[2]].linked_issues_ids =
                     PullRequestAt(rk).linked_issues_ids]_vars

C14_Witness ==
    /\ pc = "done"
    /\ "r1" \in DOMAIN repositories
    /\ DOMAIN repositories["r1"].pull_requests = {"1", "2"}
    /\ repositories["r1"].pull_requests["1"].branch # None
    /\ repositories["r1"].pull_requests["1"].linked_issues_ids = {42, 7}
    /\ Len(repositories["r1"].pull_requests["1"].actions) = 2
    /\ repositories["r1"].pull_requests["2"].branch = None
    /\ repositories["r1"].pull_requests["2"].linked_issues_ids = {}

\* C11: with the credential missing (unset or empty) main fails before any
\* work: no request to the events API, no read of the snapshot, no decoding
\* and no aggregation ever happens, and the snapshot file is left as it was.
C11_NoWorkWithoutToken ==
    /\ []((GITHUB_TOKEN = None \/ GITHUB_TOKEN = Some("")) =>
            /\ pc \in {"start", "raised"}
            /\ work = <<>>
            /\ events_raw = <<>> /\ events_list = <<>> /\ result = <<>>
            /\ rejected = 0 /\ ~warned
            /\ events = <<>> /\ done = <<>> /\ repositories = <<>>)
    /\ [][(GITHUB_TOKEN = None \/ GITHUB_TOKEN = Some("")) =>
            snapshot' = snapshot]_vars

C11_Witness ==
    /\ pc = "raised"
    /\ GITHUB_TOKEN = Some("")
    /\ snapshot # None
    /\ Len(snapshot[1]) = 2
    /\ work = <<>>

====
